---- MODULE Spec2Model ----
(***************************************************************************)
(* Model of input_output/read_config.py: the reader of PIPT init. files.   *)
(*                                                                         *)
(* A Python str is a sequence of one-character strings, a file or a block  *)
(* is a sequence of such lines.  A Python value stored in the keyword      *)
(* dictionary is a record [t, n, s, e]: t is the Python type ("float",     *)
(* "str" or "list"), n the number of a float, s the characters of a str,   *)
(* e the elements of a list.  A dict is the sequence of its items in       *)
(* insertion order.                                                        *)
(***************************************************************************)
EXTENDS Integers, Sequences, FiniteSets, TLC

(***************************************************************************)
(* Bounds of the explored inputs.                                          *)
(***************************************************************************)
MaxText == 5
MaxSection == 3
MaxPreamble == 1

(***************************************************************************)
(* Python str operations, on sequences of characters.                      *)
(***************************************************************************)
UpperCase == <<"A","B","C","D","E","F","G","H","I","J","K","L","M",
               "N","O","P","Q","R","S","T","U","V","W","X","Y","Z">>
LowerCase == <<"a","b","c","d","e","f","g","h","i","j","k","l","m",
               "n","o","p","q","r","s","t","u","v","w","x","y","z">>
Digits == <<"0","1","2","3","4","5","6","7","8","9">>

IsSpace(c) == c \in {" ", "\t", "\n"}

IsDigit(c) == \E d \in 1..10 : Digits[d] = c

DigitVal(c) == (CHOOSE d \in 1..10 : Digits[d] = c) - 1

LowerChar(c) ==
    IF \E u \in 1..26 : UpperCase[u] = c
    THEN LowerCase[CHOOSE u \in 1..26 : UpperCase[u] = c]
    ELSE c

\* str.lower()
Lower(s) == [p \in 1..Len(s) |-> LowerChar(s[p])]

\* str.strip(): leading and trailing whitespace removed
Strip(s) ==
    LET inked == {p \in 1..Len(s) : ~IsSpace(s[p])}
    IN  IF inked = {} THEN <<>>
        ELSE LET lo == CHOOSE p \in inked : \A q \in inked : p <= q
                 hi == CHOOSE p \in inked : \A q \in inked : q <= p
             IN  SubSeq(s, lo, hi)

\* str.rstrip('\n'): every trailing newline removed
RECURSIVE RstripNL(_)
RstripNL(s) ==
    IF s # <<>> /\ s[Len(s)] = "\n" THEN RstripNL(SubSeq(s, 1, Len(s) - 1))
    ELSE s

\* str.split(sep) with an explicit separator: empty fields are kept
RECURSIVE SplitOn(_, _)
SplitOn(s, sep) ==
    LET at == {p \in 1..Len(s) : s[p] = sep}
    IN  IF at = {} THEN <<s>>
        ELSE LET p == CHOOSE q \in at : \A r \in at : q <= r
             IN  <<SubSeq(s, 1, p - 1)>> \o SplitOn(SubSeq(s, p + 1, Len(s)), sep)

\* str.split('\t')
SplitTab(s) == SplitOn(s, "\t")

\* str.split(): runs of whitespace separate, no empty token
RECURSIVE SplitWs(_)
SplitWs(s) ==
    LET inked == {p \in 1..Len(s) : ~IsSpace(s[p])}
    IN  IF inked = {} THEN <<>>
        ELSE LET lo == CHOOSE p \in inked : \A q \in inked : p <= q
                 gaps == {p \in lo..Len(s) : IsSpace(s[p])}
                 hi == IF gaps = {} THEN Len(s)
                       ELSE (CHOOSE p \in gaps : \A q \in gaps : p <= q) - 1
             IN  <<SubSeq(s, lo, hi)>> \o SplitWs(SubSeq(s, hi + 1, Len(s)))

\* float(s) does not raise.  Over the characters of the explored inputs
\* (digits, letters other than a float literal's, blank, tab, newline) float
\* accepts exactly a non-empty run of digits with whitespace around it.
CanFloat(s) ==
    LET body == Strip(s)
    IN  body # <<>> /\ \A p \in 1..Len(body) : IsDigit(body[p])

RECURSIVE DecimalVal(_)
DecimalVal(ds) ==
    IF ds = <<>> THEN 0
    ELSE 10 * DecimalVal(SubSeq(ds, 1, Len(ds) - 1)) + DigitVal(ds[Len(ds)])

\* the number float(s) returns
FloatVal(s) == DecimalVal(Strip(s))

(***************************************************************************)
(* Python values and dicts.                                                *)
(***************************************************************************)
PyFloat(n) == [t |-> "float", n |-> n, s |-> <<>>, e |-> <<>>]
PyStr(s) == [t |-> "str", n |-> 0, s |-> s, e |-> <<>>]
PyList(e) == [t |-> "list", n |-> 0, s |-> <<>>, e |-> e]

FloatList(strs) == PyList([p \in 1..Len(strs) |-> PyFloat(FloatVal(strs[p]))])

\* keys[k] = v on a dict kept as its items in insertion order
DictSet(d, k, v) ==
    IF \E p \in 1..Len(d) : d[p].k = k
    THEN [p \in 1..Len(d) |-> IF d[p].k = k THEN [k |-> k, v |-> v] ELSE d[p]]
    ELSE Append(d, [k |-> k, v |-> v])

DictKeys(d) == {d[p].k : p \in 1..Len(d)}

DictGet(d, k) == d[CHOOSE p \in 1..Len(d) : d[p].k = k].v

(***************************************************************************)
(* parse_keywords: the classification of one block (the body of the first  *)
(* loop).  A try block is a record [ok, v]: ok is FALSE when the try       *)
(* raised, and the except branch runs.                                     *)
(***************************************************************************)
Raised == [ok |-> FALSE, v |-> PyList(<<>>)]
Stored(v) == [ok |-> TRUE, v |-> v]

\* a slip of KeyOf: the first token of the first line alone
KeyOfFirstToken(block) == Lower(IF SplitWs(block[1]) = <<>> THEN <<>> ELSE SplitWs(block[1])[1])

\* lines[i][0].strip().lower()
KeyOf(block) == Lower(Strip(block[1]))

\* lines[i][1:]
Payload(block) == Tail(block)

\* the outer try: a scalar, or one float per payload line
TryFloat1D(pl) ==
    IF Len(pl) = 1 /\ Len(SplitWs(pl[1])) = 1
    THEN IF CanFloat(pl[1]) THEN Stored(PyFloat(FloatVal(pl[1]))) ELSE Raised
    ELSE IF \A p \in 1..Len(pl) : CanFloat(pl[p])
         THEN Stored(FloatList(pl)) ELSE Raised

\* a slip of TryFloat2D: a single payload line is kept as a one-row matrix
TryFloat2DRowsOnly(pl) ==
    IF \A p \in 1..Len(pl) :
           LET toks == SplitWs(pl[p])
           IN  \A q \in 1..Len(toks) : CanFloat(toks[q])
    THEN Stored(PyList([p \in 1..Len(pl) |-> FloatList(SplitWs(pl[p]))]))
    ELSE Raised

\* the inner try: a 1D array disguised as 2D, or one row of floats per line
TryFloat2D(pl) ==
    IF Len(pl) = 1
    THEN LET toks == SplitWs(pl[1])
         IN  IF \A p \in 1..Len(toks) : CanFloat(toks[p])
             THEN Stored(FloatList(toks)) ELSE Raised
    ELSE IF \A p \in 1..Len(pl) :
               LET toks == SplitWs(pl[p])
               IN  \A q \in 1..Len(toks) : CanFloat(toks[q])
         THEN Stored(PyList([p \in 1..Len(pl) |-> FloatList(SplitWs(pl[p]))]))
         ELSE Raised

\* [x.rstrip('\n').lower() for x in col.split('\t') if x != '']
RECURSIVE TabFields(_)
TabFields(fields) ==
    IF fields = <<>> THEN <<>>
    ELSE IF Head(fields) = <<>> THEN TabFields(Tail(fields))
    ELSE <<PyStr(Lower(RstripNL(Head(fields))))>> \o TabFields(Tail(fields))

\* the last except: the keyword contains string(s)
StoreStrings(pl) ==
    IF Len(pl) = 1
    THEN IF Len(SplitTab(pl[1])) = 1
         THEN PyStr(Lower(Strip(pl[1])))
         ELSE PyList(TabFields(SplitTab(pl[1])))
    ELSE LET one_col == \A p \in 1..Len(pl) : ~(Len(SplitTab(pl[p])) > 1)
         IN  IF one_col
             THEN PyList([p \in 1..Len(pl) |-> PyStr(Lower(RstripNL(pl[p])))])
             ELSE PyList([p \in 1..Len(pl) |-> PyList(TabFields(SplitTab(pl[p])))])

\* the value the first loop stores for a non-empty block
BlockValue(block) ==
    LET pl == Payload(block)
        try1 == TryFloat1D(pl)
        try2 == TryFloat2D(pl)
    IN  IF try1.ok THEN try1.v
        ELSE IF try2.ok THEN try2.v
        ELSE StoreStrings(pl)

\* the first loop of parse_keywords, from the dict built so far
RECURSIVE ClassifyLoop(_, _)
ClassifyLoop(blocks, d) ==
    IF blocks = <<>> THEN d
    ELSE IF Head(blocks) # <<>>
         THEN ClassifyLoop(Tail(blocks),
                           DictSet(d, KeyOf(Head(blocks)), BlockValue(Head(blocks))))
         ELSE ClassifyLoop(Tail(blocks), d)

(***************************************************************************)
(* parse_keywords: the second loop, the quick fix for mixed lists.  A      *)
(* result is a record [exc, v]: exc names the exception that leaves the    *)
(* loop, "none" when it completes.                                         *)
(***************************************************************************)
AllStr(e) == \A p \in 1..Len(e) : e[p].t = "str"

\* a slip of ConvertEntry: the row is left alone unless float accepts the entry
ConvertEntryWholeOnly(s) ==
    IF CanFloat(s) THEN PyFloat(FloatVal(s)) ELSE PyStr(s)

\* the try/except/try/except around one entry that is a str
ConvertEntry(s) ==
    IF CanFloat(s) THEN PyFloat(FloatVal(s))
    ELSE LET toks == SplitWs(s)
         IN  IF \A p \in 1..Len(toks) : CanFloat(toks[p])
             THEN FloatList(toks) ELSE PyStr(s)

\* the loop over the entries of a list that holds only strings
ConvertEntries(e) == [p \in 1..Len(e) |-> ConvertEntry(e[p].s)]

\* one sublist keys[i][j] of a value taken for a 2D list.  A str sublist
\* passes the all-strings test character by character and every assignment
\* into it raises inside the try; a float sublist is not iterable.
RepairSublist(row) ==
    IF row.t = "float" THEN [exc |-> "TypeError", v |-> row]
    ELSE IF row.t = "str" THEN [exc |-> "none", v |-> row]
    ELSE IF AllStr(row.e) THEN [exc |-> "none", v |-> PyList(ConvertEntries(row.e))]
    ELSE [exc |-> "none", v |-> row]

\* the body of the loop over the keys, for one value
RepairValue(val) ==
    IF val.t # "list" THEN [exc |-> "none", v |-> val]
    ELSE IF val.e = <<>> THEN [exc |-> "IndexError", v |-> val]
    ELSE IF val.e[1].t = "list"
         THEN IF \E p \in 1..Len(val.e) : RepairSublist(val.e[p]).exc # "none"
              THEN [exc |-> "TypeError", v |-> val]
              ELSE [exc |-> "none",
                    v |-> PyList([p \in 1..Len(val.e) |-> RepairSublist(val.e[p]).v])]
         ELSE IF AllStr(val.e)
              THEN [exc |-> "none", v |-> PyList(ConvertEntries(val.e))]
              ELSE [exc |-> "none", v |-> val]

\* the second loop of parse_keywords over the whole dict: the first exception
\* in key order leaves the loop
RepairPass(d) ==
    LET done == [p \in 1..Len(d) |-> RepairValue(d[p].v)]
        bad == {p \in 1..Len(d) : done[p].exc # "none"}
    IN  IF bad # {}
        THEN [exc |-> done[CHOOSE p \in bad : \A q \in bad : p <= q].exc, keys |-> d]
        ELSE [exc |-> "none", keys |-> [p \in 1..Len(d) |-> [k |-> d[p].k, v |-> done[p].v]]]

\* parse_keywords as a whole
parse_keywords(blocks) == RepairPass(ClassifyLoop(blocks, <<>>))

(***************************************************************************)
(* read_clean_file and remove_empty_lines.                                 *)
(***************************************************************************)
\* f.readlines(): the text cut after every newline
RECURSIVE ReadLines(_)
ReadLines(text) ==
    LET nl == {p \in 1..Len(text) : text[p] = "\n"}
    IN  IF text = <<>> THEN <<>>
        ELSE IF nl = {} THEN <<text>>
        ELSE LET p == CHOOSE q \in nl : \A r \in nl : q <= r
             IN  <<SubSeq(text, 1, p)>> \o ReadLines(SubSeq(text, p + 1, Len(text)))

\* the lines that do not start with an octothorpe
RECURSIVE read_clean_file(_)
read_clean_file(raw) ==
    IF raw = <<>> THEN <<>>
    ELSE IF Head(raw) # <<>> /\ Head(raw)[1] = "#" THEN read_clean_file(Tail(raw))
    ELSE <<Head(raw)>> \o read_clean_file(Tail(raw))

\* Python's seq[a:b] for 0 <= a, 0 <= b
Slice(seq, a, b) == SubSeq(seq, a + 1, IF b < Len(seq) THEN b ELSE Len(seq))

\* Python's seq[a:]
SliceFrom(seq, a) == SubSeq(seq, a + 1, Len(seq))

\* the elements of a finite set of numbers, ascending
RECURSIVE Ascending(_)
Ascending(S) ==
    IF S = {} THEN <<>>
    ELSE LET lo == CHOOSE x \in S : \A y \in S : x <= y
         IN  <<lo>> \o Ascending(S \ {lo})

\* sep: the 0-based indices of the lines equal to '\n'
SepOf(ls) == Ascending({p - 1 : p \in {q \in 1..Len(ls) : ls[q] = <<"\n">>}})

remove_empty_lines(ls) ==
    LET sep == SepOf(ls)
    IN  [p \in 1..Len(sep) |->
            IF p = 1 THEN Slice(ls, 0, sep[p])
            ELSE Slice(ls, sep[p - 1] + 1, sep[p])]

(***************************************************************************)
(* read_txt: the search for the two parts and the split.  An index that    *)
(* the loop never binds is Unbound; reading it raises UnboundLocalError.           *)
(***************************************************************************)
Unbound == 0 - 1
W_dataassim == <<"d","a","t","a","a","s","s","i","m">>
W_optim == <<"o","p","t","i","m">>
W_fwdsim == <<"f","w","d","s","i","m">>

IsIpLine(line) == Lower(Strip(line)) = W_dataassim \/ Lower(Strip(line)) = W_optim

IsFwdLine(line) == ~IsIpLine(line) /\ Lower(Strip(line)) = W_fwdsim

\* the loop over range(len(lines)): the last matching index stays bound
ScanIpind(ls) ==
    LET hits == {p \in 1..Len(ls) : IsIpLine(ls[p])}
    IN  IF hits = {} THEN Unbound
        ELSE (CHOOSE p \in hits : \A q \in hits : q <= p) - 1

ScanFwdsimind(ls) ==
    LET hits == {p \in 1..Len(ls) : IsFwdLine(ls[p])}
    IN  IF hits = {} THEN Unbound
        ELSE (CHOOSE p \in hits : \A q \in hits : q <= p) - 1

ScanIpPart(ls) ==
    IF ScanIpind(ls) = Unbound THEN <<>>
    ELSE Lower(Strip(ls[ScanIpind(ls) + 1]))

\* if ipind < fwdsimind: ... else: ...
SplitIp(ls, ip, fwd) ==
    IF ip < fwd THEN Slice(ls, 2, fwd) ELSE SliceFrom(ls, ip + 2)

SplitFwd(ls, ip, fwd) ==
    IF ip < fwd THEN SliceFrom(ls, fwd + 2) ELSE Slice(ls, 2, ip)

(***************************************************************************)
(* check_mand_keywords_da_fwdsim.                                          *)
(***************************************************************************)
K_ne == <<"n","e">>
K_truedataindex == <<"t","r","u","e","d","a","t","a","i","n","d","e","x">>
K_assimindex == <<"a","s","s","i","m","i","n","d","e","x">>
K_truedata == <<"t","r","u","e","d","a","t","a">>
K_staticvar == <<"s","t","a","t","i","c","v","a","r">>
K_datavar == <<"d","a","t","a","v","a","r">>
K_obsname == <<"o","b","s","n","a","m","e">>
K_energy == <<"e","n","e","r","g","y">>
K_importstaticvar == <<"i","m","p","o","r","t","s","t","a","t","i","c","v","a","r">>
K_simulator == <<"s","i","m","u","l","a","t","o","r">>
K_parallel == <<"p","a","r","a","l","l","e","l">>
K_datatype == <<"d","a","t","a","t","y","p","e">>
PriorPattern == <<"p","r","i","o","r","_","*">>

\* filter(list(keys_da.keys()), 'prior_*').  The module imports no filter, so
\* the name is the builtin filter(function, iterable): it returns a lazy
\* filter object over the characters of the pattern and calls nothing.
BuiltinFilter(function, iterable) ==
    [t |-> "filter", n |-> 0, s |-> iterable, e |-> function]

\* obj != []: an object that is not a list never equals a list
NotEmptyList(obj) == obj.t # "list" \/ obj.e # <<>>

\* the asserts in order: the message of the first that fails, or "none"
check_mand_keywords_da_fwdsim(da, fwd) ==
    IF K_ne \notin DictKeys(da) THEN "NE not in DATAASSIM!"
    ELSE IF K_truedataindex \notin DictKeys(da) THEN "TRUEDATAINDEX not in DATAASSIM!"
    ELSE IF K_assimindex \notin DictKeys(da) THEN "ASSIMINDEX not in DATAASSIM!"
    ELSE IF K_truedata \notin DictKeys(da) THEN "TRUEDATA not in DATAASSIM!"
    ELSE IF K_staticvar \notin DictKeys(da) THEN "STATICVAR not in DATAASSIM!"
    ELSE IF K_datavar \notin DictKeys(da) THEN "DATAVAR not in DATAASSIM!"
    ELSE IF K_obsname \notin DictKeys(da) THEN "OBSNAME not in DATAASSIM!"
    ELSE IF K_importstaticvar \notin DictKeys(da)
            /\ ~NotEmptyList(BuiltinFilter([p \in 1..Len(da) |-> da[p].k], PriorPattern))
         THEN "No PRIOR_<STATICVAR> in DATAASSIM"
    ELSE IF K_energy \notin DictKeys(da) THEN "ENERGY not in DATAASSIM!"
    ELSE IF K_simulator \notin DictKeys(fwd) THEN "SIMULATOR not in FWDSIM!"
    ELSE IF K_parallel \notin DictKeys(fwd) THEN "PARALLEL not in FWDSIM!"
    ELSE IF K_datatype \notin DictKeys(fwd) THEN "DATATYPE not in FWDSIM!"
    ELSE "none"

(***************************************************************************)
(* The explored inputs.                                                    *)
(***************************************************************************)
TextAlphabet == {"1", "A", " ", "\t", "\n"}

\* every text of at most max characters
Texts(max) == UNION {[1..n -> TextAlphabet] : n \in 0..max}

\* the texts none of whose lines is blank (no newline opens the text or
\* follows a newline): the payloads a block can hold
PayloadTexts(max) ==
    {t \in Texts(max) : \A p \in 1..Len(t) :
        t[p] = "\n" => (p > 1 /\ t[p - 1] # "\n")}

KeyLines == {<<"K","\n">>, <<"K"," ","1","\n">>, <<" ","k","\n">>}

\* a block that follows the studied one: it stores under "k", the key of
\* the studied block for one of the three key lines
LaterBlocks == {<<<<"K","\n">>, <<"2","\n">>>>}

\* the lists of blocks explored around one studied block: the block alone,
\* or after an empty block and before a later block
BlockListsOf(b) == {<<b>>} \cup {<< <<>>, b, o >> : o \in LaterBlocks}

L_dataassim == <<"D","A","T","A","A","S","S","I","M","\n">>
L_optim == <<"O","P","T","I","M","\n">>
L_fwdsim == <<"F","W","D","S","I","M","\n">>
L_header == <<"h","\n">>

IpMarkers == {L_dataassim, L_optim}
SectionLines == {<<"K","\n">>, <<"1","\n">>, <<"\n">>}
PreambleLines == {<<"x","\n">>, <<"\n">>}

SeqsUpTo(S, n) == UNION {[1..m -> S] : m \in 0..n}

\* cleaned files: an optional preamble, then the two parts in either order,
\* each a marker line, a header line and the part's lines; or one part alone
Files(maxPre, maxSec) ==
    {pre \o <<ip, L_header>> \o c1 \o <<L_fwdsim, L_header>> \o c2 :
        pre \in SeqsUpTo(PreambleLines, maxPre), ip \in IpMarkers,
        c1 \in SeqsUpTo(SectionLines, maxSec), c2 \in SeqsUpTo(SectionLines, maxSec)}
    \cup
    {pre \o <<L_fwdsim, L_header>> \o c1 \o <<ip, L_header>> \o c2 :
        pre \in SeqsUpTo(PreambleLines, maxPre), ip \in IpMarkers,
        c1 \in SeqsUpTo(SectionLines, maxSec), c2 \in SeqsUpTo(SectionLines, maxSec)}
    \cup
    {pre \o <<m, L_header>> \o c1 :
        pre \in SeqsUpTo(PreambleLines, maxPre), m \in IpMarkers \cup {L_fwdsim},
        c1 \in SeqsUpTo(SectionLines, maxSec)}

K_prior_k == <<"p","r","i","o","r","_","k">>
K_other == <<"k">>

DaKeyPool == <<K_ne, K_truedataindex, K_assimindex, K_truedata, K_staticvar, K_datavar,
               K_obsname, K_importstaticvar, K_prior_k, K_energy>>
FwdKeyPool == <<K_simulator, K_parallel, K_datatype, K_other>>

\* a dict that holds the keys of pool chosen by picks, each with the value 1.0
DictOfKeys(pool, picks) ==
    LET chosen == SelectSeq([p \in 1..Len(pool) |-> p], LAMBDA p : p \in picks)
    IN  [q \in 1..Len(chosen) |-> [k |-> pool[chosen[q]], v |-> PyFloat(1)]]

(***************************************************************************)
(* The state of read_txt and of the parse_keywords call under study.       *)
(***************************************************************************)
VARIABLES
    lines,            \* read_txt: the cleaned lines of the init. file
    ipind,            \* read_txt: index of the DATAASSIM/OPTIM line
    fwdsimind,        \* read_txt: index of the FWDSIM line
    ip_part,          \* read_txt: the marker word found
    lines_ip,         \* read_txt: lines of the inversion part
    lines_fwd,        \* read_txt: lines of the forward simulation part
    clean_lines_ip,   \* read_txt: blocks of the inversion part
    clean_lines_fwd,  \* read_txt: blocks of the forward simulation part
    keys_da,          \* read_txt: dict parsed from the inversion part
    keys_fwd,         \* read_txt: dict parsed from the forward simulation part
    blocks,           \* parse_keywords: its argument lines
    keys,             \* parse_keywords: its dict keys
    pc,               \* the statement to run next
    exc               \* the exception that ended the run, "none" if none

vars == <<lines, ipind, fwdsimind, ip_part, lines_ip, lines_fwd, clean_lines_ip,
          clean_lines_fwd, keys_da, keys_fwd, blocks, keys, pc, exc>>

\* the frame of read_txt before its first statement
FreshFrame ==
    /\ ipind = Unbound /\ fwdsimind = Unbound /\ ip_part = <<>>
    /\ lines_ip = <<>> /\ lines_fwd = <<>>
    /\ clean_lines_ip = <<>> /\ clean_lines_fwd = <<>>
    /\ keys_da = <<>> /\ keys_fwd = <<>>
    /\ blocks = <<>> /\ keys = <<>>
    /\ exc = "none"

\* read_txt on a cleaned file
Init ==
    /\ lines \in Files(MaxPreamble, MaxSection)
    /\ FreshFrame
    /\ pc = "scan"

\* lines 31-36: find where the parts are
Scan ==
    /\ pc = "scan"
    /\ ipind' = ScanIpind(lines)
    /\ fwdsimind' = ScanFwdsimind(lines)
    /\ ip_part' = ScanIpPart(lines)
    /\ pc' = "split"
    /\ UNCHANGED <<lines, lines_ip, lines_fwd, clean_lines_ip, clean_lines_fwd,
                   keys_da, keys_fwd, blocks, keys, exc>>

\* lines 39-44: split the file into the two parts
Split ==
    /\ pc = "split"
    /\ IF ipind = Unbound \/ fwdsimind = Unbound
       THEN /\ exc' = "UnboundLocalError"
            /\ pc' = "raised"
            /\ UNCHANGED <<lines_ip, lines_fwd>>
       ELSE /\ lines_ip' = SplitIp(lines, ipind, fwdsimind)
            /\ lines_fwd' = SplitFwd(lines, ipind, fwdsimind)
            /\ pc' = "segment"
            /\ exc' = exc
    /\ UNCHANGED <<lines, ipind, fwdsimind, ip_part, clean_lines_ip, clean_lines_fwd,
                   keys_da, keys_fwd, blocks, keys>>

\* lines 47-48: get rid of the empty lines
Segment ==
    /\ pc = "segment"
    /\ clean_lines_ip' = remove_empty_lines(lines_ip)
    /\ clean_lines_fwd' = remove_empty_lines(lines_fwd)
    /\ pc' = "parse_ip"
    /\ UNCHANGED <<lines, ipind, fwdsimind, ip_part, lines_ip, lines_fwd,
                   keys_da, keys_fwd, blocks, keys, exc>>

\* lines 52-53: keys_da = parse_keywords(clean_lines_ip)
ParseIp ==
    /\ pc = "parse_ip"
    /\ LET r == parse_keywords(clean_lines_ip)
       IN  IF r.exc # "none"
           THEN /\ exc' = r.exc /\ pc' = "raised" /\ keys_da' = keys_da
           ELSE /\ keys_da' = r.keys /\ pc' = "parse_fwd" /\ exc' = exc
    /\ UNCHANGED <<lines, ipind, fwdsimind, ip_part, lines_ip, lines_fwd,
                   clean_lines_ip, clean_lines_fwd, keys_fwd, blocks, keys>>

\* line 54: keys_fwd = parse_keywords(clean_lines_fwd)
ParseFwd ==
    /\ pc = "parse_fwd"
    /\ LET r == parse_keywords(clean_lines_fwd)
       IN  IF r.exc # "none"
           THEN /\ exc' = r.exc /\ pc' = "raised" /\ keys_fwd' = keys_fwd
           ELSE /\ keys_fwd' = r.keys /\ pc' = "check" /\ exc' = exc
    /\ UNCHANGED <<lines, ipind, fwdsimind, ip_part, lines_ip, lines_fwd,
                   clean_lines_ip, clean_lines_fwd, keys_da, blocks, keys>>

\* line 56: check_mand_keywords_da_fwdsim(keys_da, keys_fwd)
Check ==
    /\ pc = "check"
    /\ IF check_mand_keywords_da_fwdsim(keys_da, keys_fwd) # "none"
       THEN exc' = "AssertionError" /\ pc' = "raised"
       ELSE exc' = exc /\ pc' = "organize"
    /\ UNCHANGED <<lines, ipind, fwdsimind, ip_part, lines_ip, lines_fwd,
                   clean_lines_ip, clean_lines_fwd, keys_da, keys_fwd, blocks, keys>>

Next == Scan \/ Split \/ Segment \/ ParseIp \/ ParseFwd \/ Check

Spec == Init /\ [][Next]_vars

(***************************************************************************)
(* remove_empty_lines on the lines of every short text.                    *)
(***************************************************************************)
InitSegment ==
    /\ lines = <<>>
    /\ ipind = Unbound /\ fwdsimind = Unbound /\ ip_part = <<>>
    /\ lines_ip \in {ReadLines(t) : t \in Texts(MaxText)}
    /\ lines_fwd = <<>>
    /\ clean_lines_ip = <<>> /\ clean_lines_fwd = <<>>
    /\ keys_da = <<>> /\ keys_fwd = <<>>
    /\ blocks = <<>> /\ keys = <<>>
    /\ exc = "none"
    /\ pc = "segment"

SpecSegment == InitSegment /\ [][Segment]_vars

(***************************************************************************)
(* check_mand_keywords_da_fwdsim on dicts holding any of the keywords.     *)
(***************************************************************************)
InitCheck ==
    /\ lines = <<>>
    /\ ipind = Unbound /\ fwdsimind = Unbound /\ ip_part = <<>>
    /\ lines_ip = <<>> /\ lines_fwd = <<>>
    /\ clean_lines_ip = <<>> /\ clean_lines_fwd = <<>>
    /\ keys_da \in {DictOfKeys(DaKeyPool, picks) : picks \in SUBSET (1..Len(DaKeyPool))}
    /\ keys_fwd \in {DictOfKeys(FwdKeyPool, picks) : picks \in SUBSET (1..Len(FwdKeyPool))}
    /\ blocks = <<>> /\ keys = <<>>
    /\ exc = "none"
    /\ pc = "check"

SpecCheck == InitCheck /\ [][Check]_vars

(***************************************************************************)
(* parse_keywords, its two loops as two steps, on lists of blocks.         *)
(***************************************************************************)
InitParse ==
    /\ lines = <<>>
    /\ ipind = Unbound /\ fwdsimind = Unbound /\ ip_part = <<>>
    /\ lines_ip = <<>> /\ lines_fwd = <<>>
    /\ clean_lines_ip = <<>> /\ clean_lines_fwd = <<>>
    /\ keys_da = <<>> /\ keys_fwd = <<>>
    /\ \E kl \in KeyLines, t \in PayloadTexts(MaxText) : blocks \in BlockListsOf(<<kl>> \o ReadLines(t))
    /\ keys = <<>>
    /\ exc = "none"
    /\ pc = "classify"

\* lines 137-174: store every non-empty block under its keyword
Classify ==
    /\ pc = "classify"
    /\ keys' = ClassifyLoop(blocks, keys)
    /\ pc' = "repair"
    /\ UNCHANGED <<lines, ipind, fwdsimind, ip_part, lines_ip, lines_fwd,
                   clean_lines_ip, clean_lines_fwd, keys_da, keys_fwd, blocks, exc>>

\* lines 180-205: convert the floats in the string lists, return the dict
Repair ==
    /\ pc = "repair"
    /\ LET r == RepairPass(keys)
       IN  /\ keys' = r.keys
           /\ exc' = r.exc
           /\ pc' = IF r.exc = "none" THEN "parsed" ELSE "raised"
    /\ UNCHANGED <<lines, ipind, fwdsimind, ip_part, lines_ip, lines_fwd,
                   clean_lines_ip, clean_lines_fwd, keys_da, keys_fwd, blocks>>

NextParse == Classify \/ Repair

SpecParse == InitParse /\ [][NextParse]_vars

\* read_txt up to the call of the validator, as one function of the cleaned
\* lines: the exception raised on the way or the two dicts handed over
ReadToCheck(ls) ==
    LET ip == ScanIpind(ls)
        fwd == ScanFwdsimind(ls)
        da == parse_keywords(remove_empty_lines(SplitIp(ls, ip, fwd)))
        fw == parse_keywords(remove_empty_lines(SplitFwd(ls, ip, fwd)))
    IN  IF ip = Unbound \/ fwd = Unbound
        THEN [exc |-> "UnboundLocalError", da |-> <<>>, fwd |-> <<>>]
        ELSE IF da.exc # "none" THEN [exc |-> da.exc, da |-> <<>>, fwd |-> <<>>]
        ELSE IF fw.exc # "none" THEN [exc |-> fw.exc, da |-> <<>>, fwd |-> <<>>]
        ELSE [exc |-> "none", da |-> da.keys, fwd |-> fw.keys]

(***************************************************************************)
(* Properties.                                                             *)
(***************************************************************************)
RECURSIVE Flatten(_)
Flatten(seqs) == IF seqs = <<>> THEN <<>> ELSE Head(seqs) \o Flatten(Tail(seqs))

IsBlank(line) == line = <<"\n">>

WithoutBlankLines(ls) == SelectSeq(ls, LAMBDA l : ~IsBlank(l))

Tokens(line) == SplitWs(line)

AllNumeric(strs) == \A p \in 1..Len(strs) : CanFloat(strs[p])

\* block b of blocks is not empty and no later block stores under its key
Decides(b) ==
    /\ blocks[b] # <<>>
    /\ \A c \in (b + 1)..Len(blocks) :
          blocks[c] = <<>> \/ Lower(Strip(blocks[c][1])) # Lower(Strip(blocks[b][1]))

StoredFor(b) == DictGet(keys, Lower(Strip(blocks[b][1])))

\* C1: the blocks remove_empty_lines returns, concatenated in order, are the
\* input without its blank lines, and an input without a blank line comes
\* back as one block equal to the input.
C1_SegmentKeepsEveryLine ==
    pc = "parse_ip" =>
        /\ Flatten(clean_lines_ip) = WithoutBlankLines(lines_ip)
        /\ (lines_ip # <<>> /\ \A p \in 1..Len(lines_ip) : ~IsBlank(lines_ip[p]))
              => clean_lines_ip = <<lines_ip>>

HasPrefix(str, pre) == Len(str) >= Len(pre) /\ SubSeq(str, 1, Len(pre)) = pre

NoPriorKeyword ==
    /\ K_importstaticvar \notin DictKeys(keys_da)
    /\ \A k \in DictKeys(keys_da) : ~HasPrefix(k, <<"p","r","i","o","r","_">>)

\* C2: the validator fails whenever keys_da holds neither importstaticvar
\* nor a key prior_<name>.
C2_MissingPriorFails ==
    (pc \in {"organize", "raised"} /\ NoPriorKeyword) => exc = "AssertionError"

FirstMarker == IF ipind < fwdsimind THEN ipind ELSE fwdsimind
SecondMarker == IF ipind < fwdsimind THEN fwdsimind ELSE ipind
FirstSection == IF ipind < fwdsimind THEN lines_ip ELSE lines_fwd
SecondSection == IF ipind < fwdsimind THEN lines_fwd ELSE lines_ip

\* C3: once read_txt has split a file that holds both markers, the first
\* section is the lines from two after the first marker up to the second
\* marker, and the second section the lines from two after the second marker
\* to the end, wherever the first marker sits.
C3_SectionsStartTwoAfterMarker ==
    pc = "segment" =>
        /\ FirstSection = Slice(lines, FirstMarker + 2, SecondMarker)
        /\ SecondSection = SliceFrom(lines, SecondMarker + 2)

\* the value C4 expects for a block whose payload tokens are all numbers
NumericShape(pl) ==
    IF Len(pl) = 1
    THEN IF Len(Tokens(pl[1])) = 1 THEN PyFloat(FloatVal(Tokens(pl[1])[1]))
         ELSE FloatList(Tokens(pl[1]))
    ELSE PyList([p \in 1..Len(pl) |-> FloatList(Tokens(pl[p]))])

\* the payloads C4 speaks of: every token a number, and either one line with
\* at least one token or several lines not all of exactly one token
NumericLayout(pl) ==
    /\ \A p \in 1..Len(pl) : AllNumeric(Tokens(pl[p]))
    /\ \/ Len(pl) = 1 /\ Len(Tokens(pl[1])) >= 1
       \/ Len(pl) > 1 /\ \E p \in 1..Len(pl) : Len(Tokens(pl[p])) # 1

\* C4: a block whose payload tokens are all numeric is stored as a scalar
\* (one line, one token), as the flat vector of its tokens in order (one
\* line, several tokens), or as a matrix with one row per payload line, row
\* i holding the tokens of line i in order (several lines, not all of one
\* token); the repair pass leaves that value as it is.
C4_NumericShapeFollowsLayout ==
    pc \in {"repair", "parsed"} =>
        \A b \in 1..Len(blocks) :
            (Decides(b) /\ NumericLayout(Tail(blocks[b])))
                => StoredFor(b) = NumericShape(Tail(blocks[b]))

\* a matrix block with a row of two tokens has been parsed and returned
C4_Witness ==
    /\ pc = "parsed"
    /\ \E b \in 1..Len(blocks) :
          /\ Decides(b) /\ NumericLayout(Tail(blocks[b]))
          /\ Len(Tail(blocks[b])) > 1
          /\ \E p \in 1..Len(Tail(blocks[b])) : Len(Tokens(Tail(blocks[b])[p])) = 2

\* a field that is text: it has a token and none of its tokens is a number
TextField(f) ==
    /\ Tokens(f) # <<>>
    /\ \A p \in 1..Len(Tokens(f)) : ~CanFloat(Tokens(f)[p])

\* the fields of a line between its tabs, the line's final newline left out
FieldsOf(line) ==
    SplitTab(IF line # <<>> /\ line[Len(line)] = "\n"
             THEN SubSeq(line, 1, Len(line) - 1) ELSE line)

NonEmptyLowered(fields) ==
    LET kept == SelectSeq(fields, LAMBDA f : f # <<>>)
    IN  [p \in 1..Len(kept) |-> PyStr(Lower(kept[p]))]

\* C5: a block with one payload line of several tab-separated fields, each
\* empty or text, is returned as the vector of exactly its non-empty fields,
\* lowercased, in order, also when the line ends with a tab before the
\* newline.
C5_EmptyFieldsDropped ==
    pc = "parsed" =>
        \A b \in 1..Len(blocks) :
            (/\ Decides(b)
             /\ Len(Tail(blocks[b])) = 1
             /\ Len(FieldsOf(blocks[b][2])) > 1
             /\ Len(NonEmptyLowered(FieldsOf(blocks[b][2]))) > 1
             /\ \A p \in 1..Len(FieldsOf(blocks[b][2])) :
                   FieldsOf(blocks[b][2])[p] = <<>> \/ TextField(FieldsOf(blocks[b][2])[p]))
                => StoredFor(b) = PyList(NonEmptyLowered(FieldsOf(blocks[b][2])))

\* the dict as the first loop left it
BeforeRepair == ClassifyLoop(blocks, <<>>)

NumericLeaf(val) == val.t = "float" \/ (val.t = "list" /\ val.e # <<>>)

Mixed(row) ==
    /\ \E p \in 1..Len(row) : row[p].t = "str"
    /\ \E p \in 1..Len(row) : NumericLeaf(row[p])

\* the rows of strings of a value the first loop stored: the whole value
\* when it is a string vector, each row when it is a string matrix; a row is
\* named by its index, 0 for the whole vector
StringRows(old) ==
    IF old.t # "list" \/ old.e = <<>> THEN {}
    ELSE IF old.e[1].t = "str" THEN {0}
    ELSE {r \in 1..Len(old.e) : \E q \in 1..Len(old.e[r].e) : old.e[r].e[q].t = "str"}

RowOf(val, r) == IF r = 0 THEN val.e ELSE val.e[r].e

\* C6 as stated: after the repair pass no row that was a row of strings
\* holds both a numeric leaf and a string leaf.
C6_RowsRepairedAtomically ==
    pc = "parsed" =>
        LET before == BeforeRepair
        IN  \A p \in 1..Len(keys) :
                \A r \in StringRows(before[p].v) : ~Mixed(RowOf(keys[p].v, r))

\* what the repair pass makes of one string entry
EntryRepaired(old, new) ==
    IF CanFloat(old.s) THEN new = PyFloat(FloatVal(old.s))
    ELSE IF AllNumeric(Tokens(old.s)) THEN new = FloatList(Tokens(old.s))
    ELSE new = old

\* C6 amended: after the repair pass every row that was a row of strings is
\* repaired entry by entry: an entry is a number when float accepts it, the
\* list of its tokens as numbers when float accepts each token, and the same
\* string otherwise.
C6_RowsRepairedPerEntry ==
    pc = "parsed" =>
        LET before == BeforeRepair
        IN  \A p \in 1..Len(keys) :
                \A r \in StringRows(before[p].v) :
                    LET old == RowOf(before[p].v, r)
                        new == RowOf(keys[p].v, r)
                    IN  /\ Len(new) = Len(old)
                        /\ \A q \in 1..Len(old) : EntryRepaired(old[q], new[q])

\* a row of strings came out of the repair pass with a number next to a string
C6_Witness ==
    /\ pc = "parsed"
    /\ \E p \in 1..Len(keys) :
          \E r \in StringRows(BeforeRepair[p].v) : Mixed(RowOf(keys[p].v, r))

\* C7: the repair pass applied to the dict parse_keywords returns completes
\* and returns the same dict.
C7_RepairIdempotent ==
    pc = "parsed" => (RepairPass(keys).exc = "none" /\ RepairPass(keys).keys = keys)

\* the file with its two sections (marker, header, content) exchanged
Swapped(ls) ==
    LET ip == ScanIpind(ls)
        fwd == ScanFwdsimind(ls)
        lo == IF ip < fwd THEN ip ELSE fwd
        hi == IF ip < fwd THEN fwd ELSE ip
    IN  Slice(ls, 0, lo) \o SliceFrom(ls, hi) \o Slice(ls, lo, hi)

SameDict(d1, d2) ==
    /\ DictKeys(d1) = DictKeys(d2)
    /\ \A k \in DictKeys(d1) : DictGet(d1, k) = DictGet(d2, k)

\* C8: when read_txt reaches the validator on a file and on the file with the
\* two sections exchanged, it hands over the same keys_da and keys_fwd.
C8_SectionOrderIrrelevant ==
    (pc = "check" /\ ReadToCheck(Swapped(lines)).exc = "none") =>
        /\ SameDict(ReadToCheck(Swapped(lines)).da, keys_da)
        /\ SameDict(ReadToCheck(Swapped(lines)).fwd, keys_fwd)

\* C9: parse_keywords returns a dict for every list of blocks: no exception
\* leaves it.
C9_ParseNeverRaises == pc # "raised"

FirstToken(line) == Tokens(line)[1]

NonEmptyBlocks == {b \in 1..Len(blocks) : blocks[b] # <<>>}

\* C10 as stated: the keys of the dict are exactly the lowercased first
\* tokens of the first lines of the non-empty blocks.
C10_KeyIsFirstToken ==
    pc \in {"repair", "parsed"} =>
        DictKeys(keys) = {Lower(FirstToken(blocks[b][1])) : b \in NonEmptyBlocks}

\* C10 amended: the keys of the dict are exactly the first lines of the
\* non-empty blocks, stripped of surrounding whitespace and lowercased.
C10_KeyIsStrippedFirstLine ==
    pc \in {"repair", "parsed"} =>
        DictKeys(keys) = {Lower(Strip(blocks[b][1])) : b \in NonEmptyBlocks}

\* a block whose first line carries a token after the keyword name is stored
C10_Witness ==
    /\ pc = "parsed"
    /\ \E b \in NonEmptyBlocks : Len(Tokens(blocks[b][1])) > 1

====
